---- MODULE Spec2Model ----
(***************************************************************************)
(* Golf Solitaire (src/solitaire.py): the game engine of class Solitaire.  *)
(* The state is the engine's fields (deck, tableau, waste, stock) and the  *)
(* two class attributes that size the tableau; the operations are          *)
(* move_card and deal_from_stock, the queries are operators.  play() is    *)
(* the driving loop: pc is its position, lastCall the call or command of   *)
(* the last step, origin where each card of the waste came from.           *)
(*                                                                         *)
(* The module `cards` (Deck, Card) is imported by solitaire.py but is not  *)
(* part of the sources; it is modelled from the specification: 52 unique   *)
(* cards, four suits, ranks 1..13, dealt one at a time until exhausted.    *)
(***************************************************************************)
EXTENDS Integers, Sequences, FiniteSets, TLC

VARIABLES columns, cards_in_column, deck, tableau, waste, stock,
          fault, lastCall, switches, dealCalls, origin, pc, bounded

engine == <<deck, tableau, waste, stock>>
config == <<columns, cards_in_column>>
vars == <<columns, cards_in_column, deck, tableau, waste, stock,
          fault, lastCall, switches, dealCalls, origin, pc, bounded>>

(***************************************************************************)
(* Bounds of the exploration.                                              *)
(***************************************************************************)
\* number of shuffles Init draws the deck order from
NumShuffles == 1
\* how often a run may change the pile it takes cards from (one column, or
\* the stock): a run is a sequence of at most MaxSwitches + 1 blocks of calls
MaxSwitches == 1
\* how many calls of deal_from_stock a run may make after the stock ran out
MaxIdle == 1

(***************************************************************************)
(* Sequences as Python lists.                                              *)
(***************************************************************************)
Last(s) == s[Len(s)]
Front(s) == SubSeq(s, 1, Len(s) - 1)
IsPrefix(s, t) == Len(s) <= Len(t) /\ SubSeq(t, 1, Len(s)) = s
Range(s) == {s[i] : i \in 1..Len(s)}

RECURSIVE SumLen(_)
SumLen(t) == IF t = <<>> THEN 0 ELSE Len(t[1]) + SumLen(Tail(t))

RECURSIVE Flatten(_)
Flatten(t) == IF t = <<>> THEN <<>> ELSE t[1] \o Flatten(Tail(t))

\* list[i] of Python for a list of n elements, as a 1-based position;
\* 0 stands for IndexError
PyIndex(n, i) ==
    IF 0 <= i /\ i < n THEN i + 1
    ELSE IF -n <= i /\ i < 0 THEN n + i + 1
    ELSE 0

(***************************************************************************)
(* cards.Deck and cards.Card.                                              *)
(***************************************************************************)
DeckSize == 52
NumRanks == 13
Suits == <<"clubs", "diamonds", "hearts", "spades">>
\* the rank of a card that has none (Python's None)
NoRank == 0

Card(k) == [suit |-> Suits[(k \div NumRanks) + 1], rank |-> (k % NumRanks) + 1]
AllCards == {Card(k) : k \in 0..(DeckSize - 1)}
Joker == [suit |-> "joker", rank |-> NoRank]

\* Deck(): the 52 cards, suit by suit
Deck == [i \in 1..DeckSize |-> Card(i - 1)]

\* Deck.shuffle_deck(): one of NumShuffles orders of the deck.  Order s
\* takes every 3rd (s even) or every 1st (s odd) card, starting 7*s cards in.
shuffle_deck(d, s) ==
    LET step == IF s % 2 = 0 THEN 3 ELSE 1
    IN  [i \in 1..Len(d) |-> d[((step * (i - 1) + 7 * s) % Len(d)) + 1]]

\* Deck.is_empty()
is_empty(d) == Len(d) = 0

\* n calls of Deck.deal_card(): the cards in the order dealt, and the deck left
deal_cards(d, n) ==
    [cards |-> [i \in 1..n |-> d[Len(d) + 1 - i]],
     deck  |-> SubSeq(d, 1, Len(d) - n)]

(***************************************************************************)
(* Solitaire.columns, Solitaire.cards_in_column: the class attributes, 7   *)
(* and 5 unless a caller sets them before construction.                    *)
(***************************************************************************)
DefaultColumns == 7
DefaultCardsInColumn == 5
Configs == { <<DefaultColumns, DefaultCardsInColumn>>,
             <<1, 51>>, <<1, 50>>, <<2, 2>>, <<3, 1>>, <<1, 1>> }

(***************************************************************************)
(* Solitaire.__init__                                                      *)
(***************************************************************************)
RECURSIVE deal_columns(_, _, _)
\* the for loop of lines 35-40: c columns of n cards each from deck d
deal_columns(d, c, n) ==
    IF c = 0 THEN [tableau |-> <<>>, deck |-> d]
    ELSE LET col  == deal_cards(d, n)
             rest == deal_columns(col.deck, c - 1, n)
         IN  [tableau |-> <<col.cards>> \o rest.tableau, deck |-> rest.deck]

RECURSIVE deal_stock(_)
\* the while loop of lines 43-44
deal_stock(d) ==
    IF is_empty(d) THEN [stock |-> <<>>, deck |-> d]
    ELSE LET one  == deal_cards(d, 1)
             rest == deal_stock(one.deck)
         IN  [stock |-> one.cards \o rest.stock, deck |-> rest.deck]

\* faulty variant: the waste card is read but left in the deck
setup_peek(s, cols, n) ==
    LET d0 == shuffle_deck(Deck, s)
        t  == deal_columns(d0, cols, n)
        w  == deal_cards(t.deck, 1)
        st == deal_stock(t.deck)
    IN  [tableau |-> t.tableau, waste |-> w.cards, stock |-> st.stock,
         deck |-> st.deck]

setup(s, cols, n) ==
    LET d0 == shuffle_deck(Deck, s)
        t  == deal_columns(d0, cols, n)
        w  == deal_cards(t.deck, 1)
        st == deal_stock(w.deck)
    IN  [tableau |-> t.tableau, waste |-> w.cards, stock |-> st.stock,
         deck |-> st.deck]

Init ==
    \E s \in 0..(NumShuffles - 1), cfg \in Configs :
        LET g == setup(s, cfg[1], cfg[2])
        IN  /\ columns = cfg[1]
            /\ cards_in_column = cfg[2]
            /\ deck = g.deck
            /\ tableau = g.tableau
            /\ waste = g.waste
            /\ stock = g.stock
            /\ fault = "none"
            /\ lastCall = [op |-> "init", arg |-> 0, empty |-> FALSE]
            /\ switches = 0
            /\ dealCalls = 0
            /\ origin = <<"deck">>
            /\ pc = "ready"
            /\ bounded = TRUE

(***************************************************************************)
(* Queries.                                                                *)
(***************************************************************************)
\* faulty variant: ranks wrap around, Ace next to King
adjacent_wrap(card, top) ==
    /\ top.rank # NoRank
    /\ \/ card.rank - 1 = top.rank
       \/ card.rank + 1 = top.rank
       \/ (card.rank = 1 /\ top.rank = NumRanks)
       \/ (card.rank = NumRanks /\ top.rank = 1)

\* line 59: one below or one above the topmost card of the waste.  The rank
\* of the card is a number (line 55); a number never equals None, the rank
\* of a topmost card without rank.
adjacent(card, top) ==
    /\ top.rank # NoRank
    /\ (card.rank - 1 = top.rank \/ card.rank + 1 = top.rank)

\* the for loop of lines 56-58: some non-empty column ends with the card.
\* The loop returns at the first such column, and what it returns (line 59)
\* does not depend on which column that is.
is_last_card(t, card) ==
    \E i \in 1..Len(t) : Len(t[i]) > 0 /\ card = t[i][Len(t[i])]

can_move_in(t, w, card) ==
    IF card.rank # NoRank /\ is_last_card(t, card)
    THEN adjacent(card, Last(w))
    ELSE FALSE

can_move(card) == can_move_in(tableau, waste, card)

\* faulty variant: the loop returns on its first column
has_won_scan_first(t, i) ==
    IF i > Len(t) THEN TRUE ELSE Len(t[i]) = 0

RECURSIVE has_won_scan(_, _)
has_won_scan(t, i) ==
    IF i > Len(t) THEN TRUE
    ELSE IF Len(t[i]) # 0 THEN FALSE
    ELSE has_won_scan(t, i + 1)

has_won == has_won_scan(tableau, 1)

RECURSIVE last_cards_from(_, _)
\* faulty variant: the cards are collected from the last column to the first
last_cards_from_reversed(t, i) ==
    IF i > Len(t) THEN <<>>
    ELSE IF Len(t[i]) # 0 THEN last_cards_from(t, i + 1) \o <<Last(t[i])>>
    ELSE last_cards_from(t, i + 1)

last_cards_from(t, i) ==
    IF i > Len(t) THEN <<>>
    ELSE IF Len(t[i]) # 0 THEN <<Last(t[i])>> \o last_cards_from(t, i + 1)
    ELSE last_cards_from(t, i + 1)

last_cards == last_cards_from(tableau, 1)

\* faulty variant: `or` for `and`
has_lost_or ==
    Len(stock) = 0 \/ Len(SelectSeq(last_cards, can_move)) = 0

\* faulty variant: a position is lost only while the tableau holds a card
has_lost_cards ==
    /\ Len(stock) = 0
    /\ Len(last_cards) # 0
    /\ Len(SelectSeq(last_cards, can_move)) = 0

has_lost ==
    Len(stock) = 0 /\ Len(SelectSeq(last_cards, can_move)) = 0

(***************************************************************************)
(* Operations.                                                             *)
(***************************************************************************)
\* faulty variant: the card is appended to the waste but not popped
move_card_copy(col) ==
    LET k == PyIndex(Len(tableau), col)
    IN  /\ IF k = 0
           THEN /\ fault' = "IndexError"
                /\ UNCHANGED <<tableau, waste>>
           ELSE IF Len(tableau[k]) > 0
           THEN /\ tableau' = tableau
                /\ waste' = Append(waste, Last(tableau[k]))
                /\ fault' = fault
           ELSE UNCHANGED <<tableau, waste, fault>>
        /\ UNCHANGED <<deck, stock, columns, cards_in_column>>

\* faulty variant: the move is validated with can_move first
move_card_checked(col) ==
    LET k == PyIndex(Len(tableau), col)
    IN  /\ IF k = 0
           THEN /\ fault' = "IndexError"
                /\ UNCHANGED <<tableau, waste>>
           ELSE IF Len(tableau[k]) > 0 /\ can_move(Last(tableau[k]))
           THEN /\ tableau' = [tableau EXCEPT ![k] = Front(tableau[k])]
                /\ waste' = Append(waste, Last(tableau[k]))
                /\ fault' = fault
           ELSE UNCHANGED <<tableau, waste, fault>>
        /\ UNCHANGED <<deck, stock, columns, cards_in_column>>

\* faulty variant: no test of the column's length; list.pop() of an empty
\* list raises IndexError
move_card_noguard(col) ==
    LET k == PyIndex(Len(tableau), col)
    IN  /\ IF k = 0 \/ Len(tableau[k]) = 0
           THEN /\ fault' = "IndexError"
                /\ UNCHANGED <<tableau, waste>>
           ELSE /\ tableau' = [tableau EXCEPT ![k] = Front(tableau[k])]
                /\ waste' = Append(waste, Last(tableau[k]))
                /\ fault' = fault
        /\ UNCHANGED <<deck, stock, columns, cards_in_column>>

\* faulty variant: the card replaces the topmost card of the waste
move_card_replace(col) ==
    LET k == PyIndex(Len(tableau), col)
    IN  /\ IF k = 0
           THEN /\ fault' = "IndexError"
                /\ UNCHANGED <<tableau, waste>>
           ELSE IF Len(tableau[k]) > 0
           THEN /\ tableau' = [tableau EXCEPT ![k] = Front(tableau[k])]
                /\ waste' = Append(Front(waste), Last(tableau[k]))
                /\ fault' = fault
           ELSE UNCHANGED <<tableau, waste, fault>>
        /\ UNCHANGED <<deck, stock, columns, cards_in_column>>

move_card(col) ==
    LET k == PyIndex(Len(tableau), col)
    IN  /\ IF k = 0
           THEN /\ fault' = "IndexError"
                /\ UNCHANGED <<tableau, waste>>
           ELSE IF Len(tableau[k]) > 0
           THEN /\ tableau' = [tableau EXCEPT ![k] = Front(tableau[k])]
                /\ waste' = Append(waste, Last(tableau[k]))
                /\ fault' = fault
           ELSE UNCHANGED <<tableau, waste, fault>>
        /\ UNCHANGED <<deck, stock, columns, cards_in_column>>

\* faulty variant: the first card of the stock is dealt, pop(0)
deal_from_stock_front ==
    /\ IF Len(stock) > 0
       THEN /\ waste' = Append(waste, Head(stock))
            /\ stock' = Tail(stock)
       ELSE UNCHANGED <<waste, stock>>
    /\ UNCHANGED <<deck, tableau, fault, columns, cards_in_column>>

\* faulty variant: the card is dealt onto the first column
deal_from_stock_column ==
    /\ IF Len(stock) > 0
       THEN /\ tableau' = [tableau EXCEPT ![1] = Append(tableau[1], Last(stock))]
            /\ stock' = Front(stock)
       ELSE UNCHANGED <<tableau, stock>>
    /\ UNCHANGED <<deck, waste, fault, columns, cards_in_column>>

\* faulty variant: the card is read, stock[-1], and stays in the stock
deal_from_stock_peek ==
    /\ IF Len(stock) > 0
       THEN /\ waste' = Append(waste, Last(stock))
            /\ stock' = stock
       ELSE UNCHANGED <<waste, stock>>
    /\ UNCHANGED <<deck, tableau, fault, columns, cards_in_column>>

\* faulty variant: an empty stock is refilled from the waste below its top
deal_from_stock_recycle ==
    /\ IF Len(stock) > 0
       THEN /\ waste' = Append(waste, Last(stock))
            /\ stock' = Front(stock)
       ELSE /\ waste' = <<Last(waste)>>
            /\ stock' = Front(waste)
    /\ UNCHANGED <<deck, tableau, fault, columns, cards_in_column>>

deal_from_stock ==
    /\ IF Len(stock) > 0
       THEN /\ waste' = Append(waste, Last(stock))
            /\ stock' = Front(stock)
       ELSE UNCHANGED <<waste, stock>>
    /\ UNCHANGED <<deck, tableau, fault, columns, cards_in_column>>

(***************************************************************************)
(* The callers of the engine: any sequence of calls, within the bounds.    *)
(***************************************************************************)
\* the size of the stock after construction
InitialStock == DeckSize - columns * cards_in_column - 1

\* the bookkeeping of a call: which call it is (lastCall), whether it takes
\* from another pile than the call before it, whether it finds its pile empty.
\* An uncaught exception ends the program: no call follows a fault.
\* Where `bounded` is false the run is not cut short and nothing is counted.
Count(op, arg, empty) ==
    /\ fault = "none"
    /\ LET same == lastCall.op = op /\ lastCall.arg = arg
           sw   == IF lastCall.op \in {"init", "play"} \/ same THEN 0 ELSE 1
       IN  IF bounded
           THEN /\ switches + sw <= MaxSwitches
                /\ switches' = switches + sw
           ELSE switches' = switches
    /\ lastCall' = [op |-> op, arg |-> arg, empty |-> empty]
    /\ bounded' = bounded

Track(op, arg, empty) ==
    /\ Count(op, arg, empty)
    /\ pc' = pc

\* where the card a step appends to the waste, if any, came from
Origin(from) ==
    origin' = IF Len(waste') > Len(waste) THEN Append(origin, from) ELSE origin

MoveCard ==
    \E col \in 0..(columns - 1) :
        /\ Track("move_card", col, Len(tableau[col + 1]) = 0)
        /\ move_card(col)
        /\ Origin("tableau")
        /\ UNCHANGED dealCalls

DealFromStock ==
    /\ dealCalls < InitialStock + MaxIdle
    /\ Track("deal_from_stock", 0, Len(stock) = 0)
    /\ deal_from_stock
    /\ Origin("stock")
    /\ dealCalls' = dealCalls + 1

Next == MoveCard \/ DealFromStock

Spec == Init /\ [][Next]_vars

(***************************************************************************)
(* Solitaire.play: the loop of lines 154-179, one action for each command  *)
(* a turn can read.  pc is "ready" before play() is called, "loop" at the  *)
(* top of the loop, "won", "lost" or "quit" after a break, "raised" after  *)
(* an exception left the loop: IndexError from line 169, EOFError from the *)
(* input() of line 162.                                                    *)
(***************************************************************************)
\* the columns a command can name: allowed_moves of line 152
AllowedMoves == 0..6

\* faulty variant: input() is reached without the tests of lines 156-161
Playing_unchecked == pc = "loop" /\ fault = "none"

\* lines 154-162: the turn gets to input(): the game is neither won nor lost
Playing == pc = "loop" /\ fault = "none" /\ ~has_won /\ ~has_lost

\* lines 152-153: play() is called; the deck, empty since setup, is shuffled
PlayStart ==
    /\ pc = "ready" /\ fault = "none"
    /\ lastCall.op = "init"
    /\ pc' = "loop"
    /\ deck' = shuffle_deck(deck, 0)
    /\ lastCall' = [op |-> "play", arg |-> 0, empty |-> FALSE]
    /\ UNCHANGED <<tableau, waste, stock, fault, config, switches, dealCalls,
                   origin, bounded>>

\* lines 156-158
PlayWon ==
    /\ pc = "loop" /\ fault = "none"
    /\ has_won
    /\ pc' = "won"
    /\ UNCHANGED <<engine, config, fault, lastCall, switches, dealCalls,
                   origin, bounded>>

\* lines 159-161
PlayLost ==
    /\ pc = "loop" /\ fault = "none"
    /\ ~has_won /\ has_lost
    /\ pc' = "lost"
    /\ UNCHANGED <<engine, config, fault, lastCall, switches, dealCalls,
                   origin, bounded>>

\* lines 163-165
PlayRules ==
    /\ Playing
    /\ Track("r", 0, FALSE)
    /\ UNCHANGED <<engine, config, fault, dealCalls, origin>>

\* faulty variant: the card is moved without asking can_move
PlayColumn_unchecked(cmd) ==
    /\ Playing
    /\ Count("column", cmd, cmd < columns /\ Len(tableau[cmd + 1]) = 0)
    /\ IF cmd < columns
       THEN /\ move_card(cmd)
            /\ pc' = pc
       ELSE UNCHANGED <<engine, config, fault, pc>>
    /\ Origin("tableau")
    /\ UNCHANGED dealCalls

\* lines 166-171.  Line 169 reads self.tableau[cmd][-1] before it tests the
\* length of the column: on an empty column that raises IndexError.
PlayColumn(cmd) ==
    /\ Playing
    /\ Count("column", cmd, cmd < columns /\ Len(tableau[cmd + 1]) = 0)
    /\ IF cmd < columns
       THEN IF Len(tableau[cmd + 1]) = 0
            THEN /\ fault' = "IndexError"
                 /\ pc' = "raised"
                 /\ UNCHANGED <<engine, config>>
            ELSE IF can_move(Last(tableau[cmd + 1]))
                    /\ Len(tableau[cmd + 1]) # 0
            THEN /\ move_card(cmd)
                 /\ pc' = pc
            ELSE UNCHANGED <<engine, config, fault, pc>>
       ELSE UNCHANGED <<engine, config, fault, pc>>
    /\ Origin("tableau")
    /\ UNCHANGED dealCalls

PlayColumnCommand == \E cmd \in AllowedMoves : PlayColumn(cmd)

\* lines 172-174
PlayDeal ==
    /\ Playing
    /\ dealCalls < InitialStock + MaxIdle
    /\ Track("d", 0, Len(stock) = 0)
    /\ deal_from_stock
    /\ Origin("stock")
    /\ dealCalls' = dealCalls + 1

\* line 162: input() finds stdin at its end (or is interrupted) and raises;
\* play() ends by that exception, the piles as they were
PlayEndOfInput ==
    /\ Playing
    /\ fault' = "EOFError"
    /\ pc' = "raised"
    /\ lastCall' = [op |-> "eof", arg |-> 0, empty |-> FALSE]
    /\ UNCHANGED <<engine, config, switches, dealCalls, origin, bounded>>

\* lines 175-176
PlayQuit ==
    /\ Playing
    /\ pc' = "quit"
    /\ Count("q", 0, FALSE)
    /\ UNCHANGED <<engine, config, fault, dealCalls, origin>>

\* lines 177-179: any other input
PlayWrongInput ==
    /\ Playing
    /\ Track("other", 0, FALSE)
    /\ UNCHANGED <<engine, config, fault, dealCalls, origin>>

NextPlay ==
    \/ PlayStart
    \/ PlayWon
    \/ PlayLost
    \/ PlayRules
    \/ PlayColumnCommand
    \/ PlayDeal
    \/ PlayQuit
    \/ PlayWrongInput
    \/ PlayEndOfInput

SpecPlay == Init /\ [][NextPlay]_vars

(***************************************************************************)
(* play() run to its end: the run is not cut short, and the player keeps   *)
(* issuing a command that changes the game for as long as one is enabled.  *)
(***************************************************************************)
\* games short enough to be played in every possible way: a small tableau,
\* or a stock of two or three cards
FairConfigs == { <<1, 1>>, <<2, 1>>, <<3, 16>>, <<6, 8>>, <<7, 7>> }

InitFair ==
    \E cfg \in FairConfigs :
        LET g == setup(0, cfg[1], cfg[2])
        IN  /\ columns = cfg[1]
            /\ cards_in_column = cfg[2]
            /\ deck = g.deck
            /\ tableau = g.tableau
            /\ waste = g.waste
            /\ stock = g.stock
            /\ fault = "none"
            /\ lastCall = [op |-> "init", arg |-> 0, empty |-> FALSE]
            /\ switches = 0
            /\ dealCalls = 0
            /\ origin = <<"deck">>
            /\ pc = "ready"
            /\ bounded = FALSE

\* a turn whose command changes the game: lines 170 and 173
StateChange == <<tableau, stock, waste>>' # <<tableau, stock, waste>>
Progress == (PlayColumnCommand \/ PlayDeal) /\ StateChange

SpecPlayFair == InitFair /\ [][NextPlay]_vars /\ WF_vars(PlayStart)
                         /\ WF_vars(Progress)

(***************************************************************************)
(* The queries as calls: what a call of can_move, has_won, last_cards or   *)
(* has_lost does to the engine.  None assigns to a field; the only         *)
(* expression of theirs that can raise is self.waste[-1] of line 59.       *)
(***************************************************************************)
\* line 59 is reached for the card and the waste is empty
can_move_raises(card) ==
    card.rank # NoRank /\ is_last_card(tableau, card) /\ Len(waste) = 0

QueryCanMove ==
    \E card \in AllCards \cup {Joker} :
        /\ Track("can_move", 0, FALSE)
        /\ fault' = IF can_move_raises(card) THEN "IndexError" ELSE fault
        /\ UNCHANGED <<engine, config, dealCalls, origin>>

QueryHasWon ==
    /\ Track("has_won", 0, FALSE)
    /\ UNCHANGED <<engine, config, fault, dealCalls, origin>>

\* faulty variant: the last cards are taken with pop() instead of [-1]
QueryLastCards_pop ==
    /\ Track("last_cards", 0, FALSE)
    /\ tableau' = [c \in 1..Len(tableau) |->
                      IF Len(tableau[c]) # 0 THEN Front(tableau[c])
                      ELSE tableau[c]]
    /\ UNCHANGED <<deck, waste, stock, config, fault, dealCalls, origin>>

QueryLastCards ==
    /\ Track("last_cards", 0, FALSE)
    /\ UNCHANGED <<engine, config, fault, dealCalls, origin>>

QueryHasLost ==
    /\ Track("has_lost", 0, FALSE)
    /\ fault' = IF Len(stock) = 0
                    /\ \E i \in 1..Len(last_cards) : can_move_raises(last_cards[i])
                 THEN "IndexError" ELSE fault
    /\ UNCHANGED <<engine, config, dealCalls, origin>>

NextQuery ==
    \/ MoveCard
    \/ DealFromStock
    \/ QueryCanMove
    \/ QueryHasWon
    \/ QueryLastCards
    \/ QueryHasLost

SpecQuery == Init /\ [][NextQuery]_vars

(***************************************************************************)
(* move_card called with an index that names no column: the integers just  *)
(* outside 0..columns-1 on either side, and the negative ones down to       *)
(* -(columns+1).                                                            *)
(***************************************************************************)
InvalidIndexes == ((-(columns + 1))..(-1)) \cup {columns, columns + 1}

MoveCardAt ==
    \E col \in InvalidIndexes :
        /\ Track("move_card", col,
                 LET k == PyIndex(Len(tableau), col)
                 IN  k # 0 /\ Len(tableau[k]) = 0)
        /\ move_card(col)
        /\ Origin("tableau")
        /\ UNCHANGED dealCalls

NextIndex == MoveCard \/ DealFromStock \/ MoveCardAt

SpecIndex == Init /\ [][NextIndex]_vars

(***************************************************************************)
(* Properties.                                                             *)
(***************************************************************************)
Abs(x) == IF x < 0 THEN -x ELSE x

\* the columns that hold a card, and the cards exposed
NonEmptyCols == {c \in 1..Len(tableau) : Len(tableau[c]) > 0}
Exposed == {tableau[c][Len(tableau[c])] : c \in NonEmptyCols}
\* every card of the tableau, the stock and the waste, as one sequence
Everywhere == Flatten(tableau) \o stock \o waste
AfterSetup == lastCall.op = "init"
\* the cards can_move is asked about: the 52 of the deck and one without rank
AnyCard == AllCards \cup {Joker}

\* C1: conservation: after setup and after any sequence of move_card and
\* deal_from_stock calls, the cards of the tableau, the stock and the waste
\* number 52.
C1_Conservation ==
    SumLen(tableau) + Len(stock) + Len(waste) = 52

\* a state after cards were dealt from the stock and then moved from a column
C1_Witness ==
    /\ dealCalls > 0
    /\ lastCall.op = "move_card" /\ ~lastCall.empty
    /\ Len(waste) >= 4

\* C2: setup shape: right after construction the tableau has `columns`
\* columns of `cards_in_column` cards, the waste 1 card, the stock
\* 52 - columns * cards_in_column - 1 cards (7, 5 and 16 by default), the deck
\* is empty and no card is held twice.
C2_SetupShape ==
    AfterSetup =>
        /\ Len(tableau) = columns
        /\ \A c \in 1..Len(tableau) : Len(tableau[c]) = cards_in_column
        /\ Len(waste) = 1
        /\ Len(stock) = 52 - columns * cards_in_column - 1
        /\ deck = <<>>
        /\ \A i, j \in 1..Len(Everywhere) :
               Everywhere[i] = Everywhere[j] => i = j
        /\ (columns = 7 /\ cards_in_column = 5) =>
               /\ Len(tableau) = 7
               /\ \A c \in 1..7 : Len(tableau[c]) = 5
               /\ Len(stock) = 16

\* the state right after construction with the default attributes
C2_Witness ==
    AfterSetup /\ columns = 7 /\ cards_in_column = 5 /\ Len(stock) = 16

\* C3: adjacency: can_move(card) is true exactly when card is the last card
\* of a non-empty column and its rank is 1 away from the rank of the last
\* card of the waste; so it is false for a buried card, a card outside the
\* tableau, a card of equal rank, a card without rank, Ace against King.
C3_CanMove ==
    LET top == waste[Len(waste)]
        ex  == Exposed
    IN  \A card \in AnyCard :
            IF can_move(card)
            THEN /\ card \in ex
                 /\ Abs(card.rank - top.rank) = 1
                 /\ card.rank # NoRank
                 /\ card.rank # top.rank
                 /\ Abs(card.rank - top.rank) # 12
            ELSE card \notin ex \/ Abs(card.rank - top.rank) # 1

\* a King is exposed while an Ace tops the waste (or an Ace while a King
\* does), another exposed card can move, another is buried
C3_Witness ==
    LET top == waste[Len(waste)]
    IN  /\ ~AfterSetup
        /\ \E card \in Exposed : Abs(card.rank - top.rank) = 12
        /\ \E card \in Exposed : can_move(card)
        /\ \E card \in Exposed : card.rank = top.rank
        /\ \E c \in NonEmptyCols : Len(tableau[c]) > 1

\* C4: has_lost() is true exactly when the stock is empty and no exposed
\* card satisfies can_move; with cards in the stock it is false even when no
\* exposed card can move.
C4_HasLost ==
    /\ has_lost <=> (stock = <<>> /\ \A card \in Exposed : ~can_move(card))
    /\ stock # <<>> => ~has_lost

\* the game is lost after a call: no stock, cards exposed, none can move
C4_Witness ==
    /\ has_lost
    /\ ~AfterSetup
    /\ Exposed # {}

\* C5: has_won() is true exactly when every column is empty, whatever the
\* stock and the waste hold.
C5_HasWon ==
    has_won <=> \A c \in 1..Len(tableau) : tableau[c] = <<>>

\* the game is won with cards left in the stock
C5_Witness ==
    /\ has_won
    /\ Len(tableau) > 1
    /\ stock # <<>>

\* the call a step makes
Calls(op) == lastCall'.op = op
\* 1-based position of the column the step's move_card call names
CalledCol == lastCall'.arg + 1

\* C6: move_card(col) on a non-empty column removes the column's last card
\* and appends it to the waste, whether or not can_move allows it; the
\* stock, the other columns and the earlier cards of the waste stay.
C6_MoveCard ==
    [][ (Calls("move_card") /\ Len(tableau[CalledCol]) > 0) =>
            /\ Len(tableau'[CalledCol]) = Len(tableau[CalledCol]) - 1
            /\ IsPrefix(tableau'[CalledCol], tableau[CalledCol])
            /\ waste' = waste \o <<tableau[CalledCol][Len(tableau[CalledCol])]>>
            /\ \A c \in 1..Len(tableau) : c # CalledCol => tableau'[c] = tableau[c]
            /\ Len(tableau') = Len(tableau)
            /\ stock' = stock
            /\ fault' = "none" ]_vars

\* the last call moved a card that can_move did not allow: its rank is not
\* 1 away from the card now beneath it
C6_Witness ==
    /\ lastCall.op = "move_card" /\ ~lastCall.empty
    /\ Len(waste) >= 2
    /\ Abs(waste[Len(waste)].rank - waste[Len(waste) - 1].rank) # 1
    /\ Len(tableau) > 1

\* C7: move_card(col) on an empty column (col a valid index) raises nothing
\* and leaves tableau, stock and waste as they were.
C7_MoveCardEmpty ==
    [][ (Calls("move_card") /\ Len(tableau[CalledCol]) = 0) =>
            /\ tableau' = tableau
            /\ stock' = stock
            /\ waste' = waste
            /\ fault' = "none" ]_vars

\* the last call was a move_card on a column emptied before, others not
C7_Witness ==
    /\ lastCall.op = "move_card" /\ lastCall.empty
    /\ tableau[lastCall.arg + 1] = <<>>
    /\ cards_in_column > 0
    /\ fault = "none"

\* C8: deal exhaustion: from a stock of n cards, each of the first n calls
\* of deal_from_stock() takes the last card of the stock and makes it the
\* topmost card of the waste, the tableau unchanged; after n calls the stock
\* is empty and the waste has grown by n; further calls change nothing and
\* raise nothing.
C8_DealExhaustion ==
    /\ [][ Calls("deal_from_stock") =>
              /\ tableau' = tableau
              /\ fault' = "none"
              /\ IF dealCalls < InitialStock
                 THEN /\ stock # <<>>
                      /\ stock' = SubSeq(stock, 1, Len(stock) - 1)
                      /\ waste' = waste \o <<stock[Len(stock)]>>
                 ELSE /\ stock = <<>>
                      /\ stock' = stock
                      /\ waste' = waste ]_vars
    /\ [](LET dealt == IF dealCalls < InitialStock THEN dealCalls
                       ELSE InitialStock
              moved == columns * cards_in_column - SumLen(tableau)
          IN  /\ Len(stock) = InitialStock - dealt
              /\ Len(waste) = 1 + moved + dealt)

\* the stock of n > 0 cards was dealt out and deal_from_stock called again
C8_Witness ==
    /\ InitialStock > 0
    /\ dealCalls > InitialStock
    /\ lastCall.op = "deal_from_stock" /\ lastCall.empty
    /\ stock = <<>>

\* C9: the waste always holds a card, and no operation removes a card from
\* it or reorders it: the waste before a call is a prefix of the waste after.
C9_WasteGrows ==
    /\ [](Len(waste) >= 1)
    /\ [][IsPrefix(waste, waste')]_vars

\* the waste received cards from the stock and from a column
C9_Witness ==
    /\ dealCalls > 0 /\ stock # <<>>
    /\ lastCall.op = "move_card" /\ ~lastCall.empty
    /\ Len(waste) >= 3

\* C10: no operation adds a card to a column, so an empty column stays empty,
\* and has_won(), once true, stays true.
C10_EmptyStaysEmpty ==
    /\ [][ /\ Len(tableau') = Len(tableau)
           /\ \A c \in 1..Len(tableau) :
                  /\ Len(tableau'[c]) <= Len(tableau[c])
                  /\ tableau[c] = <<>> => tableau'[c] = <<>> ]_vars
    /\ [][has_won => has_won']_vars

\* the game was won with cards in the stock, and a card was dealt after that
C10_Witness ==
    /\ has_won
    /\ lastCall.op = "deal_from_stock" /\ ~lastCall.empty
    /\ switches > 0
    /\ columns = 1

\* C11: won and lost end play(): when a turn begins with has_won() or
\* has_lost() true the loop breaks (won if has_won(), else lost), and after
\* that no card moves: tableau, stock and waste stay as they are.
C11_TerminalStops ==
    /\ [][ (pc = "loop" /\ (has_won \/ has_lost)) =>
              /\ UNCHANGED <<tableau, stock, waste>>
              /\ pc' = (IF has_won THEN "won" ELSE "lost") ]_vars
    /\ [][ (pc = "won" \/ pc = "lost") =>
              /\ UNCHANGED <<tableau, stock, waste>>
              /\ pc' = pc ]_vars
    /\ [](pc = "won" => has_won)
    /\ [](pc = "lost" => has_lost)

\* play() ended a game as lost after cards were dealt and moved
C11_Witness ==
    /\ pc = "lost"
    /\ dealCalls > 0
    /\ \E i \in 1..Len(origin) : origin[i] = "tableau"

\* C12: the queries can_move, has_won, has_lost and last_cards are pure
\* and total: a call of any of them, in any reachable state, leaves
\* tableau, stock and waste as they are and raises nothing.
C12_QueriesPure ==
    [][ (lastCall'.op \in {"can_move", "has_won", "has_lost", "last_cards"}) =>
            /\ tableau' = tableau
            /\ stock' = stock
            /\ waste' = waste
            /\ deck' = deck
            /\ fault' = "none" ]_vars

\* last_cards() was called after cards were moved and a column emptied
C12_Witness ==
    /\ lastCall.op = "last_cards"
    /\ switches > 0
    /\ Len(waste) > 1
    /\ \E c \in 1..Len(tableau) : tableau[c] = <<>>
    /\ NonEmptyCols # {}

\* C13: an invalid column index passed to move_card (an integer outside
\* 0..columns-1, negative ones included) is signalled as an index fault and
\* moves no card: tableau, stock and waste are unchanged.
C13_InvalidIndexFaults ==
    [][ (Calls("move_card") /\ lastCall'.arg \notin 0..(columns - 1)) =>
            /\ tableau' = tableau
            /\ stock' = stock
            /\ waste' = waste
            /\ fault' = "IndexError" ]_vars

\* C14: last_cards() is the list, by increasing column index, of the last
\* card of every non-empty column, nothing standing for an empty column: it
\* is as long as there are non-empty columns, and empty exactly when
\* has_won() is true.
C14_LastCards ==
    LET ne     == NonEmptyCols
        lc     == last_cards
        nth(k) == CHOOSE c \in ne : Cardinality({d \in ne : d < c}) = k - 1
    IN  /\ Len(lc) = Cardinality(ne)
        /\ \A k \in 1..Len(lc) : lc[k] = Last(tableau[nth(k)])
        /\ (lc = <<>>) <=> has_won

\* an empty column stands before two columns that hold cards
C14_Witness ==
    /\ \E c, d, e \in 1..Len(tableau) :
           /\ c < d /\ d < e
           /\ tableau[c] = <<>> /\ tableau[d] # <<>> /\ tableau[e] # <<>>
    /\ Len(last_cards) >= 2
    /\ lastCall.op = "move_card"

\* C15: in play() a column command that names an existing, empty column is
\* a silent no-op: nothing is raised, tableau, stock and waste are unchanged
\* and the loop goes on with the next turn.
C15_EmptyColumnCommand ==
    [][ (Calls("column") /\ lastCall'.arg < columns
                         /\ Len(tableau[CalledCol]) = 0) =>
            /\ tableau' = tableau
            /\ stock' = stock
            /\ waste' = waste
            /\ fault' = "none"
            /\ pc' = "loop" ]_vars

\* the waste, card by card: each card after the first came from the stock or
\* differs in rank by exactly 1 from the card beneath it
WasteFollowsRules ==
    /\ Len(origin) = Len(waste)
    /\ \A i \in 2..Len(waste) :
           \/ origin[i] = "stock"
           \/ Abs(waste[i].rank - waste[i - 1].rank) = 1

\* C16: every tableau-to-waste move that play() executes moves the exposed
\* card of the named column, and the rank of that card differs by exactly 1
\* from the rank of the waste top at the moment of the move; hence, in every
\* state reached through play(), each waste card after the first came from
\* the stock or differs in rank by exactly 1 from the card beneath it.
C16_RuleCompliance ==
    /\ []WasteFollowsRules
    /\ [][ (Calls("column") /\ waste' # waste) =>
               /\ Len(tableau[CalledCol]) > 0
               /\ Last(waste') = Last(tableau[CalledCol])
               /\ Abs(Last(waste').rank - Last(waste).rank) = 1
               /\ tableau' = [tableau EXCEPT ![CalledCol] = Front(@)] ]_vars

\* play() has moved a card from a column onto a card dealt from the stock
C16_Witness ==
    /\ pc = "loop"
    /\ lastCall.op = "column"
    /\ Len(waste) >= 3
    /\ origin[Len(waste)] = "tableau"
    /\ origin[Len(waste) - 1] = "stock"

\* C17 as stated: in no reachable state are has_won() and has_lost() both
\* true.
C17_MutuallyExclusive == ~(has_won /\ has_lost)

\* C17, amended: has_won() and has_lost() are both true exactly in the states
\* where every column and the stock are empty; in every other reachable state
\* at most one of them is true.
C17_BothExactlyWhenAllEmpty ==
    (has_won /\ has_lost) <=> (SumLen(tableau) = 0 /\ Len(stock) = 0)

\* the last card of the tableau has been moved after the stock ran out: the
\* position is won and has_lost() is true as well
C17_Witness ==
    /\ lastCall.op = "move_card"
    /\ ~lastCall.empty
    /\ Len(waste) = DeckSize
    /\ has_won
    /\ has_lost

\* C19: uniqueness is preserved: in every reachable state each of the 52
\* cards is in exactly one place among the columns, the stock and the waste
\* (the 52 places hold all of the 52 cards, so none is held twice), and so
\* no two columns have the same card as their exposed card.
C19_Uniqueness ==
    /\ Len(Everywhere) = DeckSize
    /\ Range(Everywhere) = AllCards
    /\ \A c, d \in NonEmptyCols :
           c # d => Last(tableau[c]) # Last(tableau[d])

\* cards have been dealt from the stock and then moved from a column, and
\* two columns still expose a card
C19_Witness ==
    /\ lastCall.op = "move_card"
    /\ ~lastCall.empty
    /\ Len(stock) < InitialStock
    /\ SumLen(tableau) < columns * cards_in_column
    /\ Cardinality(NonEmptyCols) >= 2

\* the cards still to be played, and the state changes made so far: every
\* one of them put one card on the waste, which setup gave its first card
CardsLeft == SumLen(tableau) + Len(stock)
StateChanges == Len(waste) - 1
InProgress == ~has_won /\ ~has_lost

\* C18: progress and termination of a guarded game: in every reachable state
\* where has_won() and has_lost() are both false, a state-changing command is
\* enabled (the stock is not empty, or some column's exposed card satisfies
\* can_move); each state-changing command makes the number of cards in the
\* tableau and the stock strictly smaller; so a play() run in which the
\* player keeps issuing an enabled state-changing command (it neither quits
\* nor ends by an exception) reaches a state where has_won() or has_lost() is
\* true, after at most 51 state changes.
C18_ProgressTermination ==
    /\ [](InProgress =>
             \/ Len(stock) > 0
             \/ \E c \in NonEmptyCols : can_move(Last(tableau[c])))
    /\ [][StateChange => CardsLeft' < CardsLeft]_vars
    /\ [](StateChanges <= 51 /\ (StateChanges = 51 => has_won))
    /\ (pc = "loop" ~> (has_won \/ has_lost \/ pc = "quit" \/ pc = "raised"))

\* a game played to its end: after the stock ran out a card was moved from a
\* column, and the loop has stopped on a won or lost position
C18_Witness ==
    /\ pc \in {"won", "lost"}
    /\ InitialStock > 0
    /\ Len(stock) = 0
    /\ origin[Len(waste)] = "tableau"
    /\ StateChanges > InitialStock

====
